---- MODULE Spec2Model ----
(***************************************************************************)
(* Model of rhakimi.codec.ReversibleTableCodec: a reversible codec that    *)
(* writes UTF-8 text as a string over a caller supplied table of symbols.  *)
(*                                                                         *)
(* Python's int is arbitrary precision.  The framed payload is at least    *)
(* 2^64, so the integers of the codec are modelled as little-endian        *)
(* sequences of 15-bit limbs without a leading zero limb (zero is the      *)
(* empty sequence); the representation is not observable.  Lengths,        *)
(* indices and the codeword length are machine integers.                   *)
(***************************************************************************)
EXTENDS Integers, Sequences, FiniteSets, TLC

\* ------------------------------------------------------------------------
\* Outcomes: a call returns a value or raises (every raise of the codec is
\* a ValueError; the kind names the raise statement).
Ok(v) == [ok |-> TRUE, val |-> v]
Err(e) == [ok |-> FALSE, err |-> e]

\* x = r; rest(x): the rest of a function body runs on the value of a call
\* that returned, and a raised error propagates.
Bind(r, rest(_)) == IF r.ok THEN rest(r.val) ELSE r

\* x = v; rest(x), for a computation that cannot raise.
Let(v, rest(_)) == rest(v)

\* ------------------------------------------------------------------------
\* Loops.  A loop of the source is a fold over its iterations, evaluated by
\* halving the range so that the evaluation depth stays logarithmic in the
\* number of iterations; the iterations run in source order.

\* for i in range(lo, hi + 1): the body maps (i, state) to Ok(state') or to
\* a raised error, which ends the loop.
For(body(_, _), lo, hi, init) ==
  LET RECURSIVE go(_, _, _)
      go(l, h, s) ==
        IF l > h THEN s
        ELSE IF l = h THEN body(l, s.val)
        ELSE LET mid == (l + h) \div 2
                 m == go(l, mid, s)
             IN  IF m.ok THEN go(mid + 1, h, m) ELSE m
  IN  go(lo, hi, Ok(init))

\* while cond(state): state = body(state); fuel is an upper bound on the
\* number of iterations.
While(cond(_), body(_), fuel, init) ==
  LET RECURSIVE go(_, _)
      go(n, s) ==
        IF n = 0 \/ ~cond(s) THEN s
        ELSE IF n = 1 THEN body(s)
        ELSE LET m == go(n \div 2, s)
             IN  IF cond(m) THEN go(n - (n \div 2), m) ELSE m
  IN  go(fuel, init)

\* ------------------------------------------------------------------------
\* Arbitrary-precision naturals.
Radix == 32768
LimbBits == 15

BigZero == << >>

Max(a, b) == IF a >= b THEN a ELSE b

Min(a, b) == IF a <= b THEN a ELSE b

\* The number of bits of a limb.
RECURSIVE SmallBits(_)
SmallBits(n) == IF n = 0 THEN 0 ELSE 1 + SmallBits(n \div 2)

BigFromInt(n) ==
  IF n = 0 THEN << >>
  ELSE IF n < Radix THEN << n >>
  ELSE << n % Radix, n \div Radix >>

\* Defined for values below Radix^2 (indices and lengths).
BigToInt(a) ==
  IF Len(a) = 0 THEN 0
  ELSE IF Len(a) = 1 THEN a[1]
  ELSE a[1] + Radix * a[2]

\* The index of the most significant non-zero limb among a[1..i], or 0.
RECURSIVE TopLimb(_, _)
TopLimb(a, i) == IF i = 0 \/ a[i] # 0 THEN i ELSE TopLimb(a, i - 1)

\* Drops the zero limbs at the most significant end.
BigNorm(a) ==
  IF Len(a) = 0 \/ a[Len(a)] # 0 THEN a ELSE SubSeq(a, 1, TopLimb(a, Len(a)))

\* The most significant index at or below i where a and b differ, or 0.
RECURSIVE TopDiff(_, _, _)
TopDiff(a, b, i) == IF i = 0 \/ a[i] # b[i] THEN i ELSE TopDiff(a, b, i - 1)

\* -1, 0, 1 as a < b, a = b, a > b.
BigCmp(a, b) ==
  IF Len(a) < Len(b) THEN -1
  ELSE IF Len(a) > Len(b) THEN 1
  ELSE LET top == TopDiff(a, b, Len(a))
       IN  IF top = 0 THEN 0 ELSE IF a[top] < b[top] THEN -1 ELSE 1

BigLess(a, b) == BigCmp(a, b) < 0

RECURSIVE BigAddFrom(_, _, _, _)
BigAddFrom(a, b, i, carry) ==
  IF i > Len(a) /\ i > Len(b)
  THEN IF carry = 0 THEN << >> ELSE << carry >>
  ELSE LET x == IF i <= Len(a) THEN a[i] ELSE 0
           y == IF i <= Len(b) THEN b[i] ELSE 0
           s == x + y + carry
       IN  << s % Radix >> \o BigAddFrom(a, b, i + 1, s \div Radix)

BigAdd(a, b) == BigAddFrom(a, b, 1, 0)

RECURSIVE BigSubFrom(_, _, _, _)
BigSubFrom(a, b, i, borrow) ==
  IF i > Len(a) THEN << >>
  ELSE LET y == IF i <= Len(b) THEN b[i] ELSE 0
           d == a[i] - y - borrow
       IN  IF d < 0
           THEN << d + Radix >> \o BigSubFrom(a, b, i + 1, 1)
           ELSE << d >> \o BigSubFrom(a, b, i + 1, 0)

\* a - b for a >= b.
BigSub(a, b) == BigNorm(BigSubFrom(a, b, 1, 0))

RECURSIVE BigMulSmallFrom(_, _, _, _)
BigMulSmallFrom(a, m, i, carry) ==
  IF i > Len(a)
  THEN IF carry = 0 THEN << >> ELSE << carry >>
  ELSE LET p == a[i] * m + carry
       IN  << p % Radix >> \o BigMulSmallFrom(a, m, i + 1, p \div Radix)

\* a * m + c for 0 <= m < Radix, 0 <= c < Radix.
BigMulSmall(a, m, c) == BigNorm(BigMulSmallFrom(a, m, 1, c))

RECURSIVE BigMulFrom(_, _, _)
BigMulFrom(a, b, i) ==
  IF i > Len(b) THEN << >>
  ELSE LET rest == BigMulFrom(a, b, i + 1)
       IN  BigAdd(BigMulSmall(a, b[i], 0),
                  IF Len(rest) = 0 THEN << >> ELSE << 0 >> \o rest)

BigMul(a, b) ==
  IF Len(a) = 0 \/ Len(b) = 0 THEN << >>
  ELSE IF Len(b) = 1 THEN BigMulSmall(a, b[1], 0)
  ELSE BigMulFrom(a, b, 1)

\* Binary exponentiation, n ** e for a machine exponent e >= 0.
RECURSIVE BigPow(_, _)
BigPow(n, e) ==
  IF e = 0 THEN << 1 >>
  ELSE IF e % 2 = 1 THEN BigMul(BigPow(n, e - 1), n)
  ELSE LET h == BigPow(n, e \div 2) IN BigMul(h, h)

\* Division by a one-limb divisor m: limbs from the most significant down.
RECURSIVE BigDivModSmallFrom(_, _, _, _)
BigDivModSmallFrom(a, m, i, rem) ==
  IF i = 0 THEN [q |-> << >>, r |-> rem]
  ELSE LET cur == rem * Radix + a[i]
           low == BigDivModSmallFrom(a, m, i - 1, cur % m)
       IN  [q |-> Append(low.q, cur \div m), r |-> low.r]

BigDivModSmall(a, m) ==
  Let(BigDivModSmallFrom(a, m, Len(a), 0),
      LAMBDA d : [q |-> BigNorm(d.q), r |-> BigFromInt(d.r)])

\* The quotient limb of rem by b, for a divisor b whose top limb is at least
\* Radix / 2 and rem < b * Radix: the estimate from the top two limbs of rem
\* and the top limb of b is never too small, and is corrected downwards.
RECURSIVE QuotientCorrect(_, _, _)
QuotientCorrect(rem, b, qhat) ==
  IF BigLess(rem, BigMulSmall(b, qhat, 0))
  THEN QuotientCorrect(rem, b, qhat - 1)
  ELSE qhat

QuotientLimb(rem, b) ==
  LET n == Len(b)
      r_top == IF Len(rem) > n THEN rem[n + 1] ELSE 0
      r_next == IF Len(rem) >= n THEN rem[n] ELSE 0
      qhat == Min((r_top * Radix + r_next) \div b[n], Radix - 1)
  IN  QuotientCorrect(rem, b, qhat)

\* One step of schoolbook long division: the next limb of the dividend, from
\* the most significant down, is brought into the remainder.
BigDivModLongStep(a, b, k, st) ==
  Let(BigNorm(<< a[Len(a) + 1 - k] >> \o st.r), LAMBDA rem :
    IF Len(rem) < Len(b)
    THEN Ok([q |-> << 0 >> \o st.q, r |-> rem])
    ELSE Let(QuotientLimb(rem, b), LAMBDA d :
           Ok([q |-> << d >> \o st.q,
               r |-> BigSub(rem, BigMulSmall(b, d, 0))])))

\* Long division of operands scaled by f, the divisor's top limb being at
\* least Radix / 2; the remainder is scaled back.
BigDivModScaled(an, bn, f) ==
  Let(For(LAMBDA k, st : BigDivModLongStep(an, bn, k, st), 1, Len(an),
          [q |-> << >>, r |-> << >>]).val,
      LAMBDA res : [q |-> BigNorm(res.q), r |-> BigDivModSmall(res.r, f).q])

\* Division by a multi-limb divisor: both operands are first scaled by a
\* power of two that brings the divisor's top limb to at least Radix / 2.
BigDivModLong(a, b) ==
  Let(2 ^ (LimbBits - SmallBits(b[Len(b)])), LAMBDA f :
    BigDivModScaled(BigMulSmall(a, f, 0), BigMulSmall(b, f, 0), f))

\* divmod(a, b) for b >= 1.
BigDivMod(a, b) ==
  IF BigLess(a, b) THEN [q |-> BigZero, r |-> a]
  ELSE IF Len(b) = 1 THEN BigDivModSmall(a, b[1])
  ELSE BigDivModLong(a, b)

\* ------------------------------------------------------------------------
\* Python built-ins used by the codec.
Reverse(s) == [i \in 1..Len(s) |-> s[Len(s) + 1 - i]]

\* str.encode("utf-8") of one code point (a Unicode scalar value).
utf8_of(cp) ==
  IF cp < 128 THEN << cp >>
  ELSE IF cp < 2048 THEN << 192 + (cp \div 64), 128 + (cp % 64) >>
  ELSE IF cp < 65536
       THEN << 224 + (cp \div 4096), 128 + ((cp \div 64) % 64),
               128 + (cp % 64) >>
  ELSE << 240 + (cp \div 262144), 128 + ((cp \div 4096) % 64),
          128 + ((cp \div 64) % 64), 128 + (cp % 64) >>

RECURSIVE utf8_encode(_)
utf8_encode(text) ==
  IF Len(text) = 0 THEN << >> ELSE utf8_of(Head(text)) \o utf8_encode(Tail(text))

IsCont(bytes, i) == i <= Len(bytes) /\ bytes[i] >= 128 /\ bytes[i] < 192

\* bytes.decode("utf-8"), strict: rejects stray and missing continuation
\* bytes, overlong forms, surrogates and code points above U+10FFFF.
RECURSIVE utf8_decode_from(_, _, _)
utf8_decode_from(bytes, i, text) ==
  IF i > Len(bytes) THEN Ok(text)
  ELSE LET b == bytes[i] IN
    IF b < 128 THEN utf8_decode_from(bytes, i + 1, Append(text, b))
    ELSE IF b >= 194 /\ b < 224 /\ IsCont(bytes, i + 1)
      THEN utf8_decode_from(bytes, i + 2,
             Append(text, (b - 192) * 64 + (bytes[i + 1] - 128)))
    ELSE IF b >= 224 /\ b < 240 /\ IsCont(bytes, i + 1) /\ IsCont(bytes, i + 2)
      THEN LET cp == (b - 224) * 4096 + (bytes[i + 1] - 128) * 64
                     + (bytes[i + 2] - 128)
           IN  IF cp < 2048 \/ (cp >= 55296 /\ cp < 57344)
               THEN Err("InvalidEncoding")
               ELSE utf8_decode_from(bytes, i + 3, Append(text, cp))
    ELSE IF b >= 240 /\ b < 245 /\ IsCont(bytes, i + 1) /\ IsCont(bytes, i + 2)
            /\ IsCont(bytes, i + 3)
      THEN LET cp == (b - 240) * 262144 + (bytes[i + 1] - 128) * 4096
                     + (bytes[i + 2] - 128) * 64 + (bytes[i + 3] - 128)
           IN  IF cp < 65536 \/ cp > 1114111
               THEN Err("InvalidEncoding")
               ELSE utf8_decode_from(bytes, i + 4, Append(text, cp))
    ELSE Err("InvalidEncoding")

utf8_decode(bytes) == utf8_decode_from(bytes, 1, << >>)

\* int.from_bytes(bytes, "big")
from_bytes(bytes) ==
  For(LAMBDA i, value : Ok(BigMulSmall(value, 256, bytes[i])),
      1, Len(bytes), BigZero).val

\* value.to_bytes(n, "big") for a value below 256^n.
to_bytes_step(st, dm) ==
  Ok([value |-> dm.q, out |-> << BigToInt(dm.r) >> \o st.out])

to_bytes(value, n) ==
  For(LAMBDA k, st : to_bytes_step(st, BigDivModSmall(st.value, 256)), 1, n,
      [value |-> value, out |-> << >>]).val.out

\* int.bit_length()
bit_length(value) ==
  IF Len(value) = 0 THEN 0
  ELSE (Len(value) - 1) * LimbBits + SmallBits(value[Len(value)])

\* ------------------------------------------------------------------------
\* ReversibleTableCodec
LENGTH_FIELD_BYTES == 8
LENGTH_PREFIX_WIDTH == 4

\* A deduplication that keeps the last occurrence of a repeated symbol
\* instead of the first: the order of the table, and with it every digit's
\* symbol, changes.
dedupe_step_keep_last(ch, deduped) ==
  Ok(Append(SelectSeq(deduped, LAMBDA x : x # ch), ch))

dedupe_step(ch, deduped) ==
  IF \E j \in 1..Len(deduped) : deduped[j] = ch
  THEN Ok(deduped)
  ELSE Ok(Append(deduped, ch))

validate_table(tbl) ==
  IF Len(tbl) < 2 THEN Err("InvalidTable")
  ELSE Let(For(LAMBDA i, d : dedupe_step(tbl[i], d), 1, Len(tbl), << >>).val,
           LAMBDA deduped :
             IF Len(deduped) < 2 THEN Err("InvalidTable") ELSE Ok(deduped))

\* {ch: idx for idx, ch in enumerate(table_chars)}
char_to_value_of(table_chars) ==
  [ch \in {table_chars[i] : i \in 1..Len(table_chars)} |->
     (CHOOSE i \in 1..Len(table_chars) : table_chars[i] = ch) - 1]

\* A lookup that reads an unknown symbol as the zero symbol.
lookup_value_lenient(ch, lookup) ==
  IF ch \notin DOMAIN lookup THEN Ok(0) ELSE Ok(lookup[ch])

lookup_value(ch, lookup) ==
  IF ch \notin DOMAIN lookup THEN Err("InvalidSymbol") ELSE Ok(lookup[ch])

\* while value: value //= base; count += 1
count_digits(value, base) ==
  IF Len(value) = 0 THEN 1
  ELSE While(LAMBDA st : Len(st.value) # 0,
             LAMBDA st : [value |-> BigDivMod(st.value, base).q,
                          count |-> st.count + 1],
             bit_length(value),
             [value |-> value, count |-> 0]).count

\* while value > 0: value, remainder = divmod(value, base); digits.append(..)
int_to_base_digits_step(st, dm) ==
  [value |-> dm.q, digits |-> Append(st.digits, dm.r)]

int_to_base_digits(value, base) ==
  IF BigLess(base, BigFromInt(2)) THEN Err("BadBase")
  ELSE IF Len(value) = 0 THEN Ok(<< BigZero >>)
  ELSE Ok(Reverse(While(LAMBDA st : Len(st.value) # 0,
                        LAMBDA st : int_to_base_digits_step(st, BigDivMod(st.value, base)),
                        bit_length(value),
                        [value |-> value, digits |-> << >>]).digits))

base_digits_to_int_step(digit, base, value) ==
  IF ~BigLess(digit, base) THEN Err("DigitOutsideBase")
  ELSE Ok(BigAdd(BigMul(value, base), digit))

base_digits_to_int(digits, base) ==
  For(LAMBDA i, value : base_digits_to_int_step(digits[i], base, value),
      1, Len(digits), BigZero)

\* A fixed-width conversion that pads behind the digits instead of before.
int_to_base_fixed_width_pad_right(value, base, width) ==
  Bind(int_to_base_digits(value, base), LAMBDA digits :
    IF Len(digits) > width THEN Err("WidthOverflow")
    ELSE Ok(digits \o [i \in 1..(width - Len(digits)) |-> BigZero]))

int_to_base_fixed_width(value, base, width) ==
  Bind(int_to_base_digits(value, base), LAMBDA digits :
    IF Len(digits) > width THEN Err("WidthOverflow")
    ELSE Ok([i \in 1..(width - Len(digits)) |-> BigZero] \o digits))

\* best_encoded_chars = Infinity stands for math.inf.
Infinity == -1

\* An iteration of the scan that also takes a candidate of equal cost: ties
\* then go to the largest length.
choose_step_last_wins(table_size, integer_value, length, best) ==
  Let(count_digits(integer_value, BigPow(BigFromInt(table_size), length)) * length,
      LAMBDA encoded_chars :
        IF best.encoded_chars = Infinity \/ encoded_chars <= best.encoded_chars
        THEN Ok([length |-> length, encoded_chars |-> encoded_chars])
        ELSE Ok(best))

\* One iteration of the scan of choose_codeword_length.
choose_step(table_size, integer_value, length, best) ==
  Let(count_digits(integer_value, BigPow(BigFromInt(table_size), length)) * length,
      LAMBDA encoded_chars :
        IF best.encoded_chars = Infinity \/ encoded_chars < best.encoded_chars
        THEN Ok([length |-> length, encoded_chars |-> encoded_chars])
        ELSE Ok(best))

choose_codeword_length(table_size, integer_value) ==
  LET max_length == (table_size ^ LENGTH_PREFIX_WIDTH) - 1 IN
  IF max_length < 1 THEN Err("InvalidTable")
  ELSE Ok(For(LAMBDA length, best :
                choose_step(table_size, integer_value, length, best),
              1, max_length,
              [length |-> 1, encoded_chars |-> Infinity]).val.length)

\* A rendering that writes digit 0 as the character "0" whatever the table.
join_chars_zero_literal(table_chars, digits) ==
  [i \in 1..Len(digits) |->
     IF BigToInt(digits[i]) = 0 THEN "0"
     ELSE table_chars[BigToInt(digits[i]) + 1]]

\* "".join(table_chars[d] for d in digits)
join_chars(table_chars, digits) ==
  [i \in 1..Len(digits) |-> table_chars[BigToInt(digits[i]) + 1]]

encode_length_prefix(length, table_size, table_chars) ==
  LET max_length == (table_size ^ LENGTH_PREFIX_WIDTH) - 1 IN
  IF length < 1 \/ length > max_length THEN Err("HeaderOverflow")
  ELSE Bind(int_to_base_fixed_width(BigFromInt(length), BigFromInt(table_size),
                                    LENGTH_PREFIX_WIDTH),
            LAMBDA digits : Ok(join_chars(table_chars, digits)))

\* [lookup_value(ch, lookup) for ch in s]: the first failing lookup raises.
lookup_all_step(ch, lookup, digits) ==
  Bind(lookup_value(ch, lookup), LAMBDA v : Ok(Append(digits, BigFromInt(v))))

lookup_all(s, lookup) ==
  For(LAMBDA i, digits : lookup_all_step(s[i], lookup, digits),
      1, Len(s), << >>)

decode_length_prefix(prefix, char_to_value, table_size) ==
  Bind(lookup_all(prefix, char_to_value), LAMBDA digits :
  Bind(base_digits_to_int(digits, BigFromInt(table_size)), LAMBDA length :
    IF BigLess(BigFromInt((table_size ^ LENGTH_PREFIX_WIDTH) - 1), length)
    THEN Err("HeaderOverflow")
    ELSE Ok(BigToInt(length))))

\* A codeword mapper whose range check is off by one: it refuses the
\* largest digit of the codebook.
digit_to_codeword_strict(digit, codeword_length, table_size, table_chars) ==
  IF ~BigLess(BigAdd(digit, BigFromInt(1)),
              BigPow(BigFromInt(table_size), codeword_length))
  THEN Err("DigitOutOfRange")
  ELSE Bind(int_to_base_fixed_width(digit, BigFromInt(table_size),
                                    codeword_length),
            LAMBDA indices : Ok(join_chars(table_chars, indices)))

digit_to_codeword(digit, codeword_length, table_size, table_chars) ==
  IF ~BigLess(digit, BigPow(BigFromInt(table_size), codeword_length))
  THEN Err("DigitOutOfRange")
  ELSE Bind(int_to_base_fixed_width(digit, BigFromInt(table_size),
                                    codeword_length),
            LAMBDA indices : Ok(join_chars(table_chars, indices)))

codeword_to_digit(codeword, codeword_length, char_to_value, table_size) ==
  IF Len(codeword) # codeword_length THEN Err("BadCodewordLength")
  ELSE
  Bind(lookup_all(codeword, char_to_value), LAMBDA digits :
  Bind(base_digits_to_int(digits, BigFromInt(table_size)), LAMBDA digit :
    IF ~BigLess(digit, BigPow(BigFromInt(table_size), codeword_length))
    THEN Err("CodewordOverflow")
    ELSE Ok(digit)))

\* "".join(digit_to_codeword(...) for digit in digits)
encode_body_step(digit, codeword_length, table_size, table_chars, out) ==
  Bind(digit_to_codeword(digit, codeword_length, table_size, table_chars),
       LAMBDA cw : Ok(out \o cw))

encode_body(digits, codeword_length, table_size, table_chars) ==
  For(LAMBDA i, out : encode_body_step(digits[i], codeword_length, table_size,
                                       table_chars, out),
      1, Len(digits), << >>)

\* sentinel_prefixed = b"\x01" + len(payload).to_bytes(8, "big") + payload
\* A frame without the sentinel byte: its leading zero bytes are lost in
\* the integer.
sentinel_prefixed_of_no_sentinel(payload) ==
  to_bytes(BigFromInt(Len(payload)), LENGTH_FIELD_BYTES) \o payload

sentinel_prefixed_of(payload) ==
  << 1 >> \o to_bytes(BigFromInt(Len(payload)), LENGTH_FIELD_BYTES) \o payload

\* The integer encode builds from the text.
framed_integer(text) == from_bytes(sentinel_prefixed_of(utf8_encode(text)))

\* The locals of encode when it reaches its return statement.
encode_locals(tbl, text) ==
  Bind(validate_table(tbl), LAMBDA table_chars :
  Let(framed_integer(text), LAMBDA integer_value :
  Bind(choose_codeword_length(Len(table_chars), integer_value),
       LAMBDA codeword_length :
  Bind(int_to_base_digits(integer_value,
                          BigPow(BigFromInt(Len(table_chars)), codeword_length)),
       LAMBDA digits :
  Bind(encode_length_prefix(codeword_length, Len(table_chars), table_chars),
       LAMBDA header :
  Bind(encode_body(digits, codeword_length, Len(table_chars), table_chars),
       LAMBDA encoded_body :
    Ok([table_size |-> Len(table_chars), integer_value |-> integer_value,
        codeword_length |-> codeword_length, header |-> header,
        encoded_body |-> encoded_body])))))))

\* return header + encoded_body
encode_result(locals) ==
  Bind(locals, LAMBDA l : Ok(l.header \o l.encoded_body))

encode(tbl, text) == encode_result(encode_locals(tbl, text))

\* for i in range(0, len(body), codeword_length): ...
decode_body_step(body, k, codeword_length, char_to_value, table_size, digits) ==
  Bind(codeword_to_digit(SubSeq(body, (k - 1) * codeword_length + 1,
                                Min(k * codeword_length, Len(body))),
                         codeword_length, char_to_value, table_size),
       LAMBDA digit : Ok(Append(digits, digit)))

decode_body(body, codeword_length, char_to_value, table_size) ==
  For(LAMBDA k, digits : decode_body_step(body, k, codeword_length,
                                          char_to_value, table_size, digits),
      1, (Len(body) + codeword_length - 1) \div codeword_length, << >>)

\* A frame check that accepts more bytes than the length field declares.
parse_prefixed_at_least(prefixed) ==
  IF Len(prefixed) < LENGTH_FIELD_BYTES THEN Err("CorruptPayload")
  ELSE IF BigLess(BigFromInt(Len(prefixed)),
                  BigAdd(BigFromInt(LENGTH_FIELD_BYTES),
                         from_bytes(SubSeq(prefixed, 1, LENGTH_FIELD_BYTES))))
       THEN Err("CorruptPayload")
  ELSE utf8_decode(SubSeq(prefixed, LENGTH_FIELD_BYTES + 1, Len(prefixed)))

\* The end of decode: the bytes of the rebuilt integer, checked and read.
parse_prefixed(prefixed) ==
  IF Len(prefixed) < LENGTH_FIELD_BYTES THEN Err("CorruptPayload")
  ELSE IF BigFromInt(Len(prefixed))
            # BigAdd(BigFromInt(LENGTH_FIELD_BYTES),
                     from_bytes(SubSeq(prefixed, 1, LENGTH_FIELD_BYTES)))
       THEN Err("CorruptPayload")
  ELSE utf8_decode(SubSeq(prefixed, LENGTH_FIELD_BYTES + 1, Len(prefixed)))

parse_frame(integer_value) ==
  Let(to_bytes(integer_value, Max(1, (bit_length(integer_value) + 7) \div 8)),
      LAMBDA raw_bytes :
        IF Len(raw_bytes) = 0 \/ raw_bytes[1] # 1 THEN Err("CorruptPayload")
        ELSE parse_prefixed(Tail(raw_bytes)))

\* decode from the alignment check on: the body is split into codewords and
\* the integer is rebuilt and parsed.
decode_body_of(table_chars, char_to_value, codeword_length, body) ==
  IF Len(body) % codeword_length # 0 THEN Err("MisalignedBody")
  ELSE
  Bind(decode_body(body, codeword_length, char_to_value, Len(table_chars)),
       LAMBDA digits :
  Bind(base_digits_to_int(digits,
                          BigPow(BigFromInt(Len(table_chars)), codeword_length)),
       LAMBDA integer_value : parse_frame(integer_value)))

\* decode from the header on.
decode_framed(table_chars, char_to_value, encoded) ==
  Bind(decode_length_prefix(SubSeq(encoded, 1, LENGTH_PREFIX_WIDTH),
                            char_to_value, Len(table_chars)),
       LAMBDA codeword_length :
    IF codeword_length < 1 THEN Err("InvalidCodewordLength")
    ELSE decode_body_of(table_chars, char_to_value, codeword_length,
           SubSeq(encoded, LENGTH_PREFIX_WIDTH + 1, Len(encoded))))

\* A decode that looks every symbol up before it checks the length.
decode_valid_lookup_first(table_chars, char_to_value, encoded) ==
  Bind(lookup_all(encoded, char_to_value), LAMBDA digits :
    IF Len(encoded) < LENGTH_PREFIX_WIDTH THEN Err("TruncatedInput")
    ELSE decode_framed(table_chars, char_to_value, encoded))

\* decode once the table is validated.
decode_valid(table_chars, char_to_value, encoded) ==
  IF Len(encoded) < LENGTH_PREFIX_WIDTH THEN Err("TruncatedInput")
  ELSE decode_framed(table_chars, char_to_value, encoded)

\* A decode that checks the length of the string before the table.
decode_length_first(tbl, encoded) ==
  IF Len(encoded) < LENGTH_PREFIX_WIDTH THEN Err("TruncatedInput")
  ELSE Bind(validate_table(tbl), LAMBDA table_chars :
         decode_valid(table_chars, char_to_value_of(table_chars), encoded))

decode(tbl, encoded) ==
  Bind(validate_table(tbl), LAMBDA table_chars :
    decode_valid(table_chars, char_to_value_of(table_chars), encoded))

\* ------------------------------------------------------------------------
\* The callers of the codec.  The codec keeps no state between calls: a
\* state of the model is one caller's table, the call it made and what the
\* call returned.
MaxTableLen == 3
MaxTextLen == 1
MaxInputLen == 5
MaxCraftLength == 2

\* The characters of tables and of strings to decode.
Symbols == {"a", "b", "c"}

\* A text is a sequence of Unicode scalar values, the strings that have a
\* UTF-8 encoding: NUL, whose encoding is a zero byte, and U+00E9, whose
\* encoding has two bytes.
CodePoints == {0, 233}

SeqsUpTo(S, n) == UNION {[1..k -> S] : k \in 0..n}

Tables == SeqsUpTo(Symbols, MaxTableLen)
Texts == SeqsUpTo(CodePoints, MaxTextLen)
Inputs == SeqsUpTo(Symbols, MaxInputLen)

\* Byte strings laid out as sentinel, 8-byte length, payload.
Frame(sentinel, declared, payload) ==
  << sentinel >> \o to_bytes(BigFromInt(declared), LENGTH_FIELD_BYTES)
     \o payload

\* Well-formed frames, and frames with each defect decode looks for.
Frames ==
  { Frame(1, 0, << >>),
    Frame(1, 2, << 195, 169 >>),
    Frame(1, 4, << 240, 159, 152, 128 >>),
    Frame(1, 2, << 0, 0 >>),
    Frame(2, 0, << >>),
    Frame(0, 2, << 195, 169 >>),
    << 1, 0, 0, 0 >>,
    << 1 >>,
    << >>,
    Frame(1, 1, << >>),
    Frame(1, 0, << 0 >>),
    << 1, 255, 0, 0, 0, 0, 0, 0, 0 >>,
    Frame(1, 1, << 255 >>),
    Frame(1, 2, << 192, 128 >>) }

\* The string of codewords of length L over table_chars that spells the
\* integer of a byte string, behind the header of L.
Craft(table_chars, L, bytes) ==
  encode_length_prefix(L, Len(table_chars), table_chars).val
    \o encode_body(int_to_base_digits(from_bytes(bytes),
                       BigPow(BigFromInt(Len(table_chars)), L)).val,
                   L, Len(table_chars), table_chars).val

NoCall == [ok |-> FALSE, err |-> "NoCall"]

VARIABLES
  table,     \* the raw table the caller passes
  pc,        \* "idle", "encoded", "roundtrip", "decoded", "chosen"
  text,      \* the text passed to encode
  encoded,   \* the outcome of encode(table, text)
  input,     \* the string passed to decode
  decoded,   \* the outcome of decode(table, input)
  chosen     \* the arguments and the result of the last call of
             \* choose_codeword_length, by the caller or inside encode

vars == << table, pc, text, encoded, input, decoded, chosen >>

NoChoice == [S |-> 0, V |-> BigZero, L |-> 0]

Init ==
  /\ table \in Tables
  /\ pc = "idle"
  /\ text = << >>
  /\ encoded = NoCall
  /\ input = << >>
  /\ decoded = NoCall
  /\ chosen = NoChoice

\* What encode leaves in chosen: the call of choose_codeword_length it made.
choice_of(locals) ==
  IF locals.ok
  THEN [S |-> locals.val.table_size, V |-> locals.val.integer_value,
        L |-> locals.val.codeword_length]
  ELSE NoChoice

\* encoded = codec.encode(table, t)
Encode(t) ==
  /\ pc = "idle"
  /\ text' = t
  /\ Let(encode_locals(table, t), LAMBDA locals :
       /\ encoded' = encode_result(locals)
       /\ chosen' = choice_of(locals))
  /\ pc' = "encoded"
  /\ UNCHANGED << table, input, decoded >>

\* decoded = codec.decode(table, encoded)
DecodeEncoded ==
  /\ pc = "encoded"
  /\ encoded.ok
  /\ input' = encoded.val
  /\ decoded' = decode(table, encoded.val)
  /\ pc' = "roundtrip"
  /\ UNCHANGED << table, text, encoded, chosen >>

\* codec.decode(table, e) of an arbitrary string e
DecodeInput(e) ==
  /\ pc = "idle"
  /\ input' = e
  /\ decoded' = decode(table, e)
  /\ pc' = "decoded"
  /\ UNCHANGED << table, text, encoded, chosen >>

\* codec.decode(table, e) of a string of whole codewords of length L
DecodeCrafted(L, bytes) ==
  /\ pc = "idle"
  /\ validate_table(table).ok
  /\ input' = Craft(validate_table(table).val, L, bytes)
  /\ decoded' = decode(table, input')
  /\ pc' = "decoded"
  /\ UNCHANGED << table, text, encoded, chosen >>

\* The integers handed to the codeword-length selector: small values and
\* the integers of framed texts.
ChoiceValues ==
  {BigFromInt(n) : n \in {0, 1, 2, 3, 8, 9, 255, 256}}
    \cup {framed_integer(<< >>)}

\* self._choose_codeword_length(len(table_chars), V)
Choose(V) ==
  /\ pc = "idle"
  /\ validate_table(table).ok
  /\ chosen' = Let(Len(validate_table(table).val), LAMBDA S :
                 [S |-> S, V |-> V, L |-> choose_codeword_length(S, V).val])
  /\ pc' = "chosen"
  /\ UNCHANGED << table, text, encoded, input, decoded >>

Next ==
  \/ \E t \in Texts : Encode(t)
  \/ DecodeEncoded
  \/ \E e \in Inputs : DecodeInput(e)
  \/ \E L \in 1..MaxCraftLength, bytes \in Frames : DecodeCrafted(L, bytes)
  \/ \E V \in ChoiceValues : Choose(V)

Spec == Init /\ [][Next]_vars

\* ------------------------------------------------------------------------
\* Properties.  The definitions below state what the codec is meant to do
\* without using the codec's own helpers where the property is about them.

\* The distinct symbols of a raw table.
Distinct(tbl) == {tbl[i] : i \in 1..Len(tbl)}

ValidTable(tbl) == Cardinality(Distinct(tbl)) >= 2

\* The positions of a raw table that hold the first occurrence of a symbol.
FirstPositions(tbl) ==
  {i \in 1..Len(tbl) : \A j \in 1..(i - 1) : tbl[j] # tbl[i]}

\* The raw table with every repeated symbol removed, first occurrences kept
\* in order.
FirstOccurrences(tbl) ==
  [k \in 1..Cardinality(FirstPositions(tbl)) |->
     tbl[CHOOSE i \in FirstPositions(tbl) :
           Cardinality({j \in FirstPositions(tbl) : j <= i}) = k]]

HasDuplicates(tbl) == Len(tbl) > Cardinality(Distinct(tbl))

InTable(tbl, e) == \A i \in 1..Len(e) : e[i] \in Distinct(tbl)

\* Two calls ended the same way: the same value, or the same error.
SameOutcome(x, y) ==
  /\ x.ok = y.ok
  /\ IF x.ok THEN x.val = y.val ELSE x.err = y.err

Failed(x, kind) == ~x.ok /\ x.err = kind

\* C1: decoding what encode returned, with the same table, returns exactly
\* the text that was encoded.
C1_RoundTrip ==
  pc = "roundtrip" => (decoded.ok /\ decoded.val = text)

C1_Witness ==
  /\ pc = "roundtrip"
  /\ decoded.ok
  /\ text = << 0 >>
  /\ Cardinality(Distinct(table)) = 3

\* C2: every symbol encode returns, in the header and in the body, is one
\* of the symbols of the table.
C2_OutputContainment ==
  (pc \in {"encoded", "roundtrip"} /\ encoded.ok) => InTable(table, encoded.val)

C2_Witness ==
  /\ pc = "encoded"
  /\ encoded.ok
  /\ HasDuplicates(table)
  /\ Len(encoded.val) > LENGTH_PREFIX_WIDTH

\* C3: a raw table and its first-occurrence deduplication give the same
\* encoding of every text and the same outcome of decoding every string.
C3_Deduplication ==
  ValidTable(table) =>
    /\ pc = "encoded" =>
         SameOutcome(encoded, encode(FirstOccurrences(table), text))
    /\ pc = "decoded" =>
         SameOutcome(decoded, decode(FirstOccurrences(table), input))

C3_Witness ==
  /\ pc = "decoded"
  /\ table = << "b", "a", "b" >>
  /\ decoded.ok
  /\ decoded.val = << 233 >>

\* C4: with fewer than two distinct symbols in the table, encode and decode
\* fail with InvalidTable whatever the other argument is.
C4_MinimumTable ==
  ~ValidTable(table) =>
    /\ pc = "encoded" => Failed(encoded, "InvalidTable")
    /\ pc = "decoded" => Failed(decoded, "InvalidTable")

C4_Witness ==
  /\ pc = "decoded"
  /\ table = << "a", "a", "a" >>
  /\ input = << "c", "c" >>
  /\ Failed(decoded, "InvalidTable")

\* C5: with a valid table, decoding a string of fewer than 4 symbols fails
\* with TruncatedInput, also when it holds symbols outside the table.
C5_Truncated ==
  (pc = "decoded" /\ ValidTable(table) /\ Len(input) < LENGTH_PREFIX_WIDTH)
    => Failed(decoded, "TruncatedInput")

C5_Witness ==
  /\ pc = "decoded"
  /\ table = << "a", "b" >>
  /\ input = << "a", "c", "c" >>
  /\ Failed(decoded, "TruncatedInput")

\* The index of a symbol in the deduplicated table, counted from 0: the
\* number of distinct symbols before its first occurrence in the raw table.
IndexIn(tbl, ch) ==
  Cardinality({tbl[j] : j \in 1..((CHOOSE i \in FirstPositions(tbl) : tbl[i] = ch) - 1)})

TableSize(tbl) == Cardinality(Distinct(tbl))

Header(e) == SubSeq(e, 1, LENGTH_PREFIX_WIDTH)
Body(e) == SubSeq(e, LENGTH_PREFIX_WIDTH + 1, Len(e))

\* The number four table symbols spell in base S, most significant first.
HeaderValue(tbl, e) ==
  IndexIn(tbl, e[1]) * TableSize(tbl) ^ 3 + IndexIn(tbl, e[2]) * TableSize(tbl) ^ 2
    + IndexIn(tbl, e[3]) * TableSize(tbl) + IndexIn(tbl, e[4])

\* The number the symbols of a string spell in base S, most significant
\* first: cutting the string into codewords of any length does not change it.
PositionalValue(tbl, s) ==
  For(LAMBDA i, value :
        Ok(BigMulSmall(value, TableSize(tbl), IndexIn(tbl, s[i]))),
      1, Len(s), BigZero).val

\* d is the number of digits of V in the given base, 1 for V = 0.
IsDigitCount(V, base, d) ==
  /\ d >= 1
  /\ BigLess(V, BigPow(base, d))
  /\ d = 1 \/ ~BigLess(V, BigPow(base, d - 1))

\* C6, as stated: with a valid table, decoding a string of at least 4
\* symbols that holds a symbol outside the table, in the header or in the
\* body, fails with InvalidSymbol.
C6_InvalidSymbol_AsStated ==
  (pc = "decoded" /\ ValidTable(table) /\ Len(input) >= LENGTH_PREFIX_WIDTH
     /\ ~InTable(table, input))
    => Failed(decoded, "InvalidSymbol")

\* C6, amended: with a valid table, decoding a string of at least 4 symbols
\* that holds a symbol outside the table always fails; it fails with
\* InvalidSymbol when the foreign symbol is in the header, or when the
\* header spells a length L >= 1 and the body length is a multiple of L.  A
\* foreign symbol in the body behind a header that spells 0 fails with the
\* invalid-length error, and behind a header whose L does not divide the
\* body length it fails with MisalignedBody.
C6_InvalidSymbol ==
  (pc = "decoded" /\ ValidTable(table) /\ Len(input) >= LENGTH_PREFIX_WIDTH
     /\ ~InTable(table, input))
    => /\ ~decoded.ok
       /\ decoded.err =
            IF ~InTable(table, Header(input)) THEN "InvalidSymbol"
            ELSE IF HeaderValue(table, input) < 1 THEN "InvalidCodewordLength"
            ELSE IF Len(Body(input)) % HeaderValue(table, input) # 0
                 THEN "MisalignedBody"
            ELSE "InvalidSymbol"

C6_Witness ==
  /\ pc = "decoded"
  /\ table = << "a", "b" >>
  /\ input = << "a", "a", "a", "b", "c" >>
  /\ Failed(decoded, "InvalidSymbol")

\* C7: with a valid table encode returns a string for every text, and when
\* encode fails the failure is InvalidTable.
C7_EncodeTotal ==
  pc = "encoded" =>
    /\ ValidTable(table) => encoded.ok
    /\ ~encoded.ok => encoded.err = "InvalidTable"

C7_Witness ==
  /\ pc = "encoded"
  /\ Cardinality(Distinct(table)) = 3
  /\ text = << 233 >>
  /\ encoded.ok

\* The cost of a candidate codeword length: digits(V, S^c) * c.
Cost(S, V, c) == count_digits(V, BigPow(BigFromInt(S), c)) * c

\* C8: the chosen L lies in 1..S^4-1, no candidate costs less than L, and
\* every candidate smaller than L costs strictly more; the digit count the
\* cost is made of is the number of digits of V in base S^c, 1 for V = 0.
C8_CodewordLengthSelection ==
  pc = "chosen" =>
    /\ chosen.L \in 1..(chosen.S ^ LENGTH_PREFIX_WIDTH - 1)
    /\ Let(Cost(chosen.S, chosen.V, chosen.L), LAMBDA cost :
         \A c \in 1..(chosen.S ^ LENGTH_PREFIX_WIDTH - 1) :
           Let(count_digits(chosen.V, BigPow(BigFromInt(chosen.S), c)), LAMBDA d :
             /\ IsDigitCount(chosen.V, BigPow(BigFromInt(chosen.S), c), d)
             /\ cost <= d * c
             /\ c < chosen.L => d * c > cost))

\* A choice where a larger candidate costs exactly as much as the chosen one.
C8_Witness ==
  /\ pc = "chosen"
  /\ chosen.S = 2
  /\ chosen.V = BigFromInt(8)
  /\ chosen.L = 1
  /\ Cost(2, chosen.V, 2) = Cost(2, chosen.V, 1)
  /\ Cost(2, chosen.V, 3) > Cost(2, chosen.V, 1)

\* C9: what encode returns is 4 table symbols that spell the chosen L in
\* base S, most significant digit first and padded with the zero symbol,
\* followed by digits(V, S^L) * L symbols, a non-zero multiple of L.
C9_EncodedLayout ==
  (pc = "encoded" /\ encoded.ok) =>
    /\ Len(encoded.val) >= LENGTH_PREFIX_WIDTH
    /\ InTable(table, Header(encoded.val))
    /\ chosen.S = TableSize(table)
    /\ chosen.V = framed_integer(text)
    /\ HeaderValue(table, encoded.val) = chosen.L
    /\ Let(Cost(TableSize(table), framed_integer(text), chosen.L), LAMBDA n :
         /\ n > 0
         /\ Len(Body(encoded.val)) = n
         /\ Len(Body(encoded.val)) % chosen.L = 0
         /\ Len(encoded.val) = LENGTH_PREFIX_WIDTH + n)

C9_Witness ==
  /\ pc = "encoded"
  /\ encoded.ok
  /\ table = << "b", "c", "a" >>
  /\ text = << 233 >>
  /\ Header(encoded.val) = << "b", "b", "b", "c" >>

\* The bytes decode reads the rebuilt integer as.
MinimalBytes(V) == to_bytes(V, Max(1, (bit_length(V) + 7) \div 8))

NoSentinel(bytes) == Len(bytes) = 0 \/ bytes[1] # 1

ShortLengthField(bytes) == Len(bytes) - 1 < LENGTH_FIELD_BYTES

LengthMismatch(bytes) ==
  BigFromInt(Len(bytes) - 1 - LENGTH_FIELD_BYTES)
    # from_bytes(SubSeq(bytes, 2, 1 + LENGTH_FIELD_BYTES))

FrameDefect(bytes) ==
  NoSentinel(bytes) \/ ShortLengthField(bytes) \/ LengthMismatch(bytes)

\* A string of table symbols with a header L >= 1 and a body aligned to L.
WellFormed(tbl, e) ==
  /\ ValidTable(tbl)
  /\ Len(e) >= LENGTH_PREFIX_WIDTH
  /\ InTable(tbl, e)
  /\ HeaderValue(tbl, e) >= 1
  /\ Len(Body(e)) % HeaderValue(tbl, e) = 0

\* C10: for a string of table symbols with a header L >= 1 and an aligned
\* body, decode returns a text only if the integer the body spells is the
\* framed integer of that text, and it fails with CorruptPayload when the
\* bytes of that integer do not start with 1, or fewer than 8 bytes follow,
\* or the bytes behind the length field do not number the declared length.
C10_FrameCheck ==
  (pc \in {"decoded", "roundtrip"} /\ WellFormed(table, input)) =>
    Let(PositionalValue(table, Body(input)), LAMBDA V :
      /\ decoded.ok => V = framed_integer(decoded.val)
      /\ FrameDefect(MinimalBytes(V)) => Failed(decoded, "CorruptPayload"))

\* A sentinel and a whole length field, and a payload one byte too long.
C10_Witness ==
  /\ pc = "decoded"
  /\ WellFormed(table, input)
  /\ HeaderValue(table, input) = 2
  /\ MinimalBytes(PositionalValue(table, Body(input)))
       = << 1, 0, 0, 0, 0, 0, 0, 0, 0, 0 >>
  /\ Failed(decoded, "CorruptPayload")

====
